---- MODULE Spec2Model ----
(***************************************************************************)
(* Model of the provider dispatch and HTTP handlers of the vision-platform *)
(* AI service (services/ai).  One call is in progress at a time; pc is the *)
(* position inside the running coroutine.  unit is the module the process  *)
(* runs; svc holds the module-level availability flags, the settings and   *)
(* the fields the constructor set, all fixed once the module is loaded.    *)
(***************************************************************************)
EXTENDS Integers, Sequences, FiniteSets, TLC

VARIABLES
    unit,         \* the module this process runs
    svc,          \* the module's availability flags, settings and service fields
    pc,           \* position of the running call ("idle" when none)
    args,         \* arguments and locals of the running call
    invoked,      \* provider functions invoked by the running call, in order
    result,       \* the local variable `result` (None or a dict)
    outcome,      \* "none" | "running" | "returned" | "raised"
    exc,          \* exception that left the call ("" when none)
    tempfiles,    \* temporary files that exist on disk
    response      \* HTTP response of the running request (None or a record)

vars == <<unit, svc, pc, args, invoked, result, outcome, exc, tempfiles,
          response>>

envVars == <<unit, svc>>

(***************************************************************************)
(* Python's None / a value, as a sequence of length 0 / 1.                 *)
(***************************************************************************)
None == <<>>
Some(v) == <<v>>
Val(o) == o[1]

NoArgs == [fn |-> "none"]

(***************************************************************************)
(* Bounds                                                                  *)
(***************************************************************************)
MaxPages == 2
MaxFiles == 2

(***************************************************************************)
(* translation_service.py                                                  *)
(***************************************************************************)
Texts == {"hello"}

\* language codes detect_language can return
DetectableLangs == {"en", "es", "fr", "de", "it", "pt"}

\* the language pairs _load_local_models tries to load
model_pairs == {<<"en", "es">>, <<"en", "fr">>, <<"en", "de">>,
                <<"es", "en">>, <<"fr", "en">>, <<"de", "en">>}

\* languages callers pass in the model
CallLangs == {"en", "es"}

\* each pair may or may not load; the model draws the loaded pairs from the
\* pairs over CallLangs
LoadablePairs == {p \in model_pairs : p[1] \in CallLangs /\ p[2] \in CallLangs}

TranslationServices ==
    [OPENAI_AVAILABLE : BOOLEAN, api_key : BOOLEAN,
     google_translator : BOOLEAN, local_models : SUBSET LoadablePairs]

Upper == [en |-> "EN", es |-> "ES", fr |-> "FR", de |-> "DE", it |-> "IT", pt |-> "PT"]

\* source_lang after `if not source_lang or source_lang == "auto"`
detect_language(text) == DetectableLangs

ResolveSourceLang(text, source_lang) ==
    IF source_lang = "" \/ source_lang = "auto"
    THEN detect_language(text)
    ELSE {source_lang}

\* guard of step 1
UseOpenAI(quality, sv) ==
    quality = "high" /\ sv.OPENAI_AVAILABLE /\ sv.api_key

\* guard of step 2, mutated: the `not result` test is dropped
UseGoogleAlways(res, sv) == sv.google_translator

\* guard of step 2
UseGoogle(res, sv) == res = None /\ sv.google_translator

\* guard of steps 3 and 4
NoResultYet(res) == res = None

_openai_translate(text, source_lang, target_lang) ==
    [originalText |-> text, translatedText |-> <<"openai", text>>,
     sourceLanguage |-> source_lang, targetLanguage |-> target_lang,
     confidence |-> 95, model |-> "openai-gpt-3.5-turbo"]

_google_translate(text, source_lang, target_lang) ==
    [originalText |-> text, translatedText |-> <<"google", text>>,
     sourceLanguage |-> source_lang, targetLanguage |-> target_lang,
     confidence |-> 90, model |-> "google-translate"]

\* _local_translate: with a loaded model the body reaches `torch.no_grad()`,
\* and the module never imports torch: the NameError is logged and re-raised.
\* Without a loaded model the mock translation is returned.
_local_translate(text, source_lang, target_lang, sv) ==
    IF <<source_lang, target_lang>> \in sv.local_models
    THEN [raised |-> TRUE, exc |-> "NameError", value |-> None]
    ELSE [raised |-> FALSE, exc |-> "",
          value |-> Some([originalText |-> text,
                          translatedText |-> <<"[", Upper[target_lang], "] ", text>>,
                          sourceLanguage |-> source_lang,
                          targetLanguage |-> target_lang,
                          confidence |-> 50, model |-> "mock-local"])]

\* step 4 of translate
IdentityResult(text, source_lang, target_lang) ==
    [originalText |-> text, translatedText |-> <<text>>,
     sourceLanguage |-> source_lang, targetLanguage |-> target_lang,
     confidence |-> 10, model |-> "fallback"]

\* position after the Google step, mutated: a failed attempt is retried
AfterGoogleRetry(res, attempted) ==
    IF attempted /\ res = None THEN "translate_google" ELSE "translate_local"

\* position after the Google step
AfterGoogle(res, attempted) == "translate_local"

TranslateCall ==
    /\ unit = "translation_service"
    /\ pc = "idle"
    /\ \E text \in Texts, source_lang \in CallLangs \cup {"", "auto"},
          target_lang \in CallLangs, quality \in {"balanced", "high"} :
         \E src \in ResolveSourceLang(text, source_lang) :
            args' = [fn |-> "translate", text |-> text, source_lang |-> src,
                     target_lang |-> target_lang, quality |-> quality]
    /\ pc' = "translate_openai"
    /\ invoked' = <<>>
    /\ result' = None
    /\ outcome' = "running"
    /\ exc' = ""
    /\ UNCHANGED <<envVars, tempfiles, response>>

TranslateOpenAI ==
    /\ pc = "translate_openai"
    /\ IF UseOpenAI(args.quality, svc)
       THEN \E ok \in BOOLEAN :
               /\ invoked' = Append(invoked, [fn |-> "_openai_translate", ok |-> ok])
               /\ result' = IF ok
                            THEN Some(_openai_translate(args.text, args.source_lang,
                                                        args.target_lang))
                            ELSE result
       ELSE UNCHANGED <<invoked, result>>
    /\ pc' = "translate_google"
    /\ UNCHANGED <<envVars, args, outcome, exc, tempfiles, response>>

TranslateGoogle ==
    /\ pc = "translate_google"
    /\ IF UseGoogle(result, svc)
       THEN \E ok \in BOOLEAN :
               /\ invoked' = Append(invoked, [fn |-> "_google_translate", ok |-> ok])
               /\ result' = IF ok
                            THEN Some(_google_translate(args.text, args.source_lang,
                                                        args.target_lang))
                            ELSE result
               /\ pc' = AfterGoogle(result', TRUE)
       ELSE /\ UNCHANGED <<invoked, result>>
            /\ pc' = AfterGoogle(result, FALSE)
    /\ UNCHANGED <<envVars, args, outcome, exc, tempfiles, response>>

TranslateLocal ==
    /\ pc = "translate_local"
    /\ IF NoResultYet(result)
       THEN LET r == _local_translate(args.text, args.source_lang,
                                      args.target_lang, svc)
            IN /\ invoked' = Append(invoked, [fn |-> "_local_translate",
                                              ok |-> ~r.raised])
               /\ result' = r.value
               /\ pc' = IF r.raised THEN "done" ELSE "translate_return"
               /\ outcome' = IF r.raised THEN "raised" ELSE outcome
               /\ exc' = r.exc
       ELSE /\ pc' = "translate_return"
            /\ UNCHANGED <<invoked, result, outcome, exc>>
    /\ UNCHANGED <<envVars, args, tempfiles, response>>

TranslateReturn ==
    /\ pc = "translate_return"
    /\ result' = IF NoResultYet(result)
                 THEN Some(IdentityResult(args.text, args.source_lang,
                                          args.target_lang))
                 ELSE result
    /\ outcome' = "returned"
    /\ pc' = "done"
    /\ UNCHANGED <<envVars, args, invoked, exc, tempfiles, response>>

(***************************************************************************)
(* speech_service.py                                                       *)
(***************************************************************************)
SpeechServices ==
    [whisper_model : BOOLEAN, speech_recognizer : BOOLEAN,
     PYDUB_AVAILABLE : BOOLEAN]

\* lengths of audio_data around the thresholds of _mock_transcribe
AudioLengths == {1000, 50000, 200000}

ShortAudioLimit == 50000
MediumAudioLimit == 200000

\* `if model == "whisper" and self.whisper_model`
UseWhisper(model, sv) == model = "whisper" /\ sv.whisper_model

\* `elif self.speech_recognizer and PYDUB_AVAILABLE`
UseSpeechRecognition(model, sv) ==
    ~UseWhisper(model, sv) /\ sv.speech_recognizer /\ sv.PYDUB_AVAILABLE

_whisper_transcribe(language) ==
    [text |-> "whisper transcript", language |-> language,
     confidence |-> 90, model |-> "whisper"]

_speech_recognition_transcribe(language) ==
    [text |-> "google transcript", language |-> language,
     confidence |-> 85, model |-> "google-speech-recognition"]

_mock_transcribe(audio_length, language) ==
    [text |-> IF audio_length < ShortAudioLimit THEN "short mock"
              ELSE IF audio_length < MediumAudioLimit THEN "medium mock"
              ELSE "long mock",
     language |-> language, confidence |-> 75, model |-> "mock-stt"]

\* the temporary file speech_to_text writes audio_data to
AudioTempFile == <<"wav", 0>>

\* speech_to_text up to the inner try: the temporary file is created
\* (delete=False) and audio_data written inside the `with`; written: whether
\* temp_file.write succeeds.  Its exception leaves through the outer except
\* clause, which re-raises.
SpeechToTextCall ==
    /\ unit = "speech_service"
    /\ pc = "idle"
    /\ \E audio_length \in AudioLengths, model \in {"whisper", "google"},
          written \in BOOLEAN :
          /\ args' = [fn |-> "speech_to_text", audio_length |-> audio_length,
                      language |-> "en", model |-> model,
                      temp_file_path |-> AudioTempFile, written |-> written]
          /\ pc' = IF written THEN "stt_provider" ELSE "done"
          /\ outcome' = IF written THEN "running" ELSE "raised"
          /\ exc' = IF written THEN "" ELSE "OSError"
    /\ tempfiles' = tempfiles \cup {AudioTempFile}
    /\ invoked' = <<>>
    /\ result' = None
    /\ UNCHANGED <<envVars, response>>

\* the if / elif of speech_to_text: an exception of the provider is not
\* caught here, it leaves through the finally clause
SttProvider ==
    /\ pc = "stt_provider"
    /\ IF UseWhisper(args.model, svc)
       THEN \E ok \in BOOLEAN :
               /\ invoked' = Append(invoked, [fn |-> "_whisper_transcribe", ok |-> ok])
               /\ result' = IF ok THEN Some(_whisper_transcribe(args.language))
                            ELSE result
               /\ exc' = IF ok THEN "" ELSE "WhisperError"
               /\ pc' = IF ok THEN "stt_mock" ELSE "stt_finally"
       ELSE IF UseSpeechRecognition(args.model, svc)
       THEN \E ok \in BOOLEAN :
               /\ invoked' = Append(invoked, [fn |-> "_speech_recognition_transcribe",
                                              ok |-> ok])
               /\ result' = IF ok
                            THEN Some(_speech_recognition_transcribe(args.language))
                            ELSE result
               /\ exc' = IF ok THEN "" ELSE "SpeechRecognitionError"
               /\ pc' = IF ok THEN "stt_mock" ELSE "stt_finally"
       ELSE /\ pc' = "stt_mock"
            /\ UNCHANGED <<invoked, result, exc>>
    /\ UNCHANGED <<envVars, args, outcome, tempfiles, response>>

SttMock ==
    /\ pc = "stt_mock"
    /\ IF NoResultYet(result)
       THEN /\ invoked' = Append(invoked, [fn |-> "_mock_transcribe", ok |-> TRUE])
            /\ result' = Some(_mock_transcribe(args.audio_length, args.language))
       ELSE UNCHANGED <<invoked, result>>
    /\ pc' = "stt_finally"
    /\ UNCHANGED <<envVars, args, outcome, exc, tempfiles, response>>

\* the finally clause, with the cleanup only done when no exception is
\* propagating
finally_unlink_on_success(files, temp_file_path, e) ==
    IF e = "" THEN files \ {temp_file_path} ELSE files

\* the finally clause: `if os.path.exists(temp_file_path): os.unlink(...)`,
\* whether the try block returns or raises
finally_unlink(files, temp_file_path, e) == files \ {temp_file_path}

\* finally: unlink the temporary file, then return or re-raise
SttFinally ==
    /\ pc = "stt_finally"
    /\ tempfiles' = finally_unlink(tempfiles, args.temp_file_path, exc)
    /\ outcome' = IF exc = "" THEN "returned" ELSE "raised"
    /\ pc' = "done"
    /\ UNCHANGED <<envVars, args, invoked, result, exc, response>>

(***************************************************************************)
(* ocr_service.py                                                          *)
(***************************************************************************)
\* the keys of self.providers, in the order of the dict
ProviderNames == <<"tesseract", "google", "azure">>

ProviderFunc ==
    [tesseract |-> "_tesseract_ocr", google |-> "_google_vision_ocr",
     azure |-> "_azure_vision_ocr"]

\* the methods and fields an OCRService instance has
OCRServiceAttrs ==
    {"default_provider", "cache_ttl", "max_file_size", "supported_formats",
     "providers", "available_providers", "extract_text", "_process_pdf",
     "_pdf_to_images", "_process_image", "_tesseract_ocr",
     "_google_vision_ocr", "_azure_vision_ocr", "get_available_providers",
     "get_supported_formats", "get_health_status"}

DefaultMaxFileSize == 52428800

DefaultSupportedFormats == {"pdf", "jpg", "jpeg", "png", "tiff"}

\* values of DEFAULT_OCR_PROVIDER in the model: the default, another provider,
\* and a name that is no key of self.providers
DefaultProviders == {"tesseract", "azure", "paddle"}

\* self.providers maps a name to its function, or to None (FALSE) when the
\* library did not import; pdf_library: pdf2image or PyMuPDF imported
OCRModules ==
    [providers : [{"tesseract", "google", "azure"} -> BOOLEAN],
     default_provider : DefaultProviders,
     max_file_size : {DefaultMaxFileSize},
     supported_formats : {DefaultSupportedFormats},
     pdf_library : BOOLEAN]

available_providers(sv) ==
    SelectSeq(ProviderNames, LAMBDA n : sv.providers[n])

\* __init__ raises RuntimeError when no provider is available
OCRServices == {sv \in OCRModules : available_providers(sv) # <<>>}

\* what callers pass as file_path
Suffixes == {".png", ".PNG", ".pdf", ".gif"}

PathFiles ==
    [kind : {"path"}, exists : {TRUE}, size : {1024, DefaultMaxFileSize + 1},
     suffix : Suffixes]
    \cup {[kind |-> "path", exists |-> FALSE, size |-> 0, suffix |-> ".png"]}

\* in-memory content: raw bytes, an io.BytesIO, a MagicMock
MemoryFiles ==
    [kind : {"bytes", "BytesIO", "MagicMock"}, exists : {FALSE}, size : {1024},
     suffix : {""}]

Files == PathFiles \cup MemoryFiles

\* file_path.suffix.lower().lstrip('.')
FileExtension(suffix) ==
    CASE suffix = ".png" -> "png"
      [] suffix = ".PNG" -> "png"
      [] suffix = ".pdf" -> "pdf"
      [] suffix = ".gif" -> "gif"
      [] OTHER -> ""

\* lines 94-108 of extract_text: the exception raised, "" when the file passes.
\* Path(bytes) and Path(BytesIO) raise TypeError; a MagicMock has __fspath__,
\* and the path it gives does not exist.
ValidateFile(file, sv) ==
    IF file.kind \in {"bytes", "BytesIO"} THEN "TypeError"
    ELSE IF ~file.exists THEN "FileNotFoundError"
    ELSE IF file.size > sv.max_file_size THEN "ValueError"
    ELSE IF FileExtension(file.suffix) \notin sv.supported_formats THEN "ValueError"
    ELSE ""

\* lines 111-114 of extract_text, with default_provider ignored
SelectProviderNoDefault(provider, sv) ==
    IF \E i \in 1..Len(available_providers(sv)) :
          available_providers(sv)[i] = provider
    THEN provider
    ELSE available_providers(sv)[1]

\* lines 111-114 of extract_text; provider "" is None
SelectProvider(provider, sv) ==
    LET selected_provider == IF provider # "" THEN provider ELSE sv.default_provider
    IN IF \E i \in 1..Len(available_providers(sv)) :
             available_providers(sv)[i] = selected_provider
       THEN selected_provider
       ELSE available_providers(sv)[1]

OcrProviderResult(provider, file) ==
    [text |-> <<provider, file.suffix>>, blocks |-> <<provider>>, confidence |-> 90]

\* _process_image, mutated: the provider's exception is swallowed and an empty
\* result returned
_process_image_swallow(provider, file, sv, ok) ==
    IF ~sv.providers[provider]
    THEN [raised |-> TRUE, exc |-> "ValueError", value |-> None, called |-> FALSE]
    ELSE IF ok
    THEN [raised |-> FALSE, exc |-> "", called |-> TRUE,
          value |-> Some(OcrProviderResult(provider, file))]
    ELSE [raised |-> FALSE, exc |-> "", called |-> TRUE,
          value |-> Some([text |-> <<>>, blocks |-> <<>>, confidence |-> 0])]

\* _process_image: looks the provider function up, calls it once; its
\* exception is logged and re-raised.  ok: whether the provider succeeds.
_process_image(provider, file, sv, ok) ==
    IF ~sv.providers[provider]
    THEN [raised |-> TRUE, exc |-> "ValueError", value |-> None, called |-> FALSE]
    ELSE IF ok
    THEN [raised |-> FALSE, exc |-> "", called |-> TRUE,
          value |-> Some(OcrProviderResult(provider, file))]
    ELSE [raised |-> TRUE, exc |-> "ProviderError", called |-> TRUE,
          value |-> None]

\* result.update({...}) of extract_text
WithMetadata(r, file, provider) ==
    [text |-> r.text, blocks |-> r.blocks, confidence |-> r.confidence,
     file_size |-> file.size, file_format |-> FileExtension(file.suffix),
     provider |-> provider]

PageTempFile(page) == <<"png", page>>

\* entry of extract_text up to the choice between _process_pdf and
\* _process_image; ret is None, or the frame of the coroutine that awaits it
ExtractTextEnter(file, provider, ret) ==
    LET e == ValidateFile(file, svc)
    IN /\ args' = [fn |-> "extract_text", file |-> file, provider |-> provider,
                   selected_provider |->
                       IF e = "" THEN SelectProvider(provider, svc) ELSE "",
                   file_extension |->
                       IF e = "" THEN FileExtension(file.suffix) ELSE "",
                   page |-> 0, total_pages |-> 0, all_text |-> <<>>,
                   ret |-> ret]
       /\ exc' = e
       /\ pc' = IF e # "" THEN "extract_exit"
                ELSE IF FileExtension(file.suffix) = "pdf" THEN "pdf_convert"
                ELSE "process_image"
       /\ invoked' = <<>>
       /\ result' = None
       /\ outcome' = "running"

ExtractTextCall ==
    /\ unit = "ocr_service"
    /\ pc = "idle"
    /\ \E file \in Files, provider \in {"", "tesseract", "google", "azure", "en"} :
          ExtractTextEnter(file, provider, None)
    /\ UNCHANGED <<envVars, tempfiles, response>>

ProcessImage ==
    /\ pc = "process_image"
    /\ \E ok \in BOOLEAN :
          LET r == _process_image(args.selected_provider, args.file, svc, ok)
          IN /\ invoked' = IF r.called
                           THEN Append(invoked,
                                       [fn |-> ProviderFunc[args.selected_provider],
                                        ok |-> ok])
                           ELSE invoked
             /\ result' = IF r.raised THEN None
                          ELSE Some(WithMetadata(Val(r.value), args.file,
                                                 args.selected_provider))
             /\ exc' = r.exc
    /\ pc' = "extract_exit"
    /\ UNCHANGED <<envVars, args, outcome, tempfiles, response>>

\* _pdf_to_images: RuntimeError without a PDF library; the conversion itself
\* can fail; otherwise a list of 0..MaxPages page images
PdfConvert ==
    /\ pc = "pdf_convert"
    /\ IF ~svc.pdf_library
       THEN /\ exc' = "RuntimeError"
            /\ pc' = "extract_exit"
            /\ UNCHANGED args
       ELSE \E converted \in BOOLEAN, n \in 0..MaxPages :
               IF converted
               THEN /\ args' = [args EXCEPT !.total_pages = n, !.page = 0]
                    /\ pc' = "pdf_page"
                    /\ UNCHANGED exc
               ELSE /\ exc' = "PDFConversionError"
                    /\ pc' = "extract_exit"
                    /\ UNCHANGED args
    /\ UNCHANGED <<envVars, invoked, result, outcome, tempfiles, response>>

\* head of the page loop: the temporary file is created (delete=False) and the
\* page image saved into it, before the try/finally is entered
PdfPage ==
    /\ pc = "pdf_page"
    /\ IF args.page < args.total_pages
       THEN \E saved \in BOOLEAN :
               /\ tempfiles' = tempfiles \cup {PageTempFile(args.page + 1)}
               /\ exc' = IF saved THEN "" ELSE "ImageSaveError"
               /\ pc' = IF saved THEN "pdf_ocr" ELSE "extract_exit"
               /\ UNCHANGED result
       ELSE /\ result' = Some(WithMetadata(
                              [text |-> args.all_text, blocks |-> args.all_text,
                               confidence |-> 0],
                              args.file, args.selected_provider))
            /\ pc' = "extract_exit"
            /\ UNCHANGED <<tempfiles, exc>>
    /\ UNCHANGED <<envVars, args, invoked, outcome, response>>

PdfOcr ==
    /\ pc = "pdf_ocr"
    /\ \E ok \in BOOLEAN :
          LET r == _process_image(args.selected_provider, args.file, svc, ok)
          IN /\ invoked' = IF r.called
                           THEN Append(invoked,
                                       [fn |-> ProviderFunc[args.selected_provider],
                                        ok |-> ok])
                           ELSE invoked
             /\ args' = IF r.raised THEN args
                        ELSE [args EXCEPT !.all_text =
                                 Append(@, Val(r.value).text)]
             /\ exc' = r.exc
    /\ pc' = "pdf_unlink"
    /\ UNCHANGED <<envVars, result, outcome, tempfiles, response>>

\* finally: os.unlink(temp_path)
PdfUnlink ==
    /\ pc = "pdf_unlink"
    /\ tempfiles' = tempfiles \ {PageTempFile(args.page + 1)}
    /\ IF exc = ""
       THEN /\ args' = [args EXCEPT !.page = @ + 1]
            /\ pc' = "pdf_page"
       ELSE /\ pc' = "extract_exit"
            /\ UNCHANGED args
    /\ UNCHANGED <<envVars, invoked, result, outcome, exc, response>>

\* extract_text returns its result or re-raises; control goes back to the
\* awaiting coroutine when there is one
ExtractTextExit ==
    /\ pc = "extract_exit"
    /\ outcome' = IF exc = "" THEN "returned" ELSE "raised"
    /\ IF args.ret = None
       THEN /\ pc' = "done"
            /\ UNCHANGED args
       ELSE /\ pc' = Val(args.ret).pc
            /\ args' = Val(args.ret).args
    /\ UNCHANGED <<envVars, invoked, result, exc, tempfiles, response>>

\* a call of a method the class does not define: getattr raises AttributeError
BatchProcessCall ==
    /\ unit = "ocr_service"
    /\ pc = "idle"
    /\ "batch_process" \notin OCRServiceAttrs
    /\ \E n \in 0..MaxFiles :
          args' = [fn |-> "batch_process", files |-> [i \in 1..n |-> "MagicMock"]]
    /\ invoked' = <<>>
    /\ result' = None
    /\ outcome' = "raised"
    /\ exc' = "AttributeError"
    /\ pc' = "done"
    /\ UNCHANGED <<envVars, tempfiles, response>>

(***************************************************************************)
(* accessibility_service.py                                                *)
(***************************************************************************)
\* the service's own field, and the OCR module it imports in describe_scene
\* (whose OCRService() may find no provider)
AccessibilityServices ==
    [object_detection_model : BOOLEAN,
     providers : [{"tesseract", "google", "azure"} -> BOOLEAN],
     default_provider : {"tesseract"},
     max_file_size : {DefaultMaxFileSize},
     supported_formats : {DefaultSupportedFormats},
     pdf_library : {TRUE}]

\* image sizes: the 100x30 image of test_app.py, a camera frame, a thumbnail
ImageSizes == {<<100, 30>>, <<640, 480>>, <<50, 80>>}

\* name and confidence (in percent) of the mock objects, in list order
mock_objects ==
    <<[name |-> "person", confidence |-> 95], [name |-> "chair", confidence |-> 87],
      [name |-> "table", confidence |-> 92], [name |-> "book", confidence |-> 78],
      [name |-> "lamp", confidence |-> 83], [name |-> "window", confidence |-> 90],
      [name |-> "door", confidence |-> 85], [name |-> "plant", confidence |-> 72]>>

\* confidence_threshold=0.3 of describe_scene, in percent
DescribeThreshold == 30

\* _mock_object_detection raises ZeroDivisionError at the first object that
\* passes the threshold when width - 100 or height - 80 is zero
MockDetectionRaises(width, height, threshold) ==
    /\ \E i \in 1..Len(mock_objects) : mock_objects[i].confidence >= threshold
    /\ (width - 100 = 0 \/ height - 80 = 0)

\* detect_objects: YOLO when the model is loaded (ok: whether inference
\* succeeds), the mock detection otherwise; every exception is re-raised
detect_objects(width, height, threshold, sv, ok) ==
    IF sv.object_detection_model
    THEN [raised |-> ~ok, exc |-> IF ok THEN "" ELSE "YOLOError"]
    ELSE IF MockDetectionRaises(width, height, threshold)
    THEN [raised |-> TRUE, exc |-> "ZeroDivisionError"]
    ELSE [raised |-> FALSE, exc |-> ""]

\* Python's a % b: the result has the sign of the divisor (b # 0)
PyMod(a, b) == IF b > 0 THEN a % b ELSE -((-a) % (-b))

\* the boundingBox of the object at index i of mock_objects (from 0)
MockBoundingBox(i, width, height) ==
    [x |-> PyMod(i * 100, width - 100),
     y |-> PyMod(i * 80, height - 80),
     width |-> 80 + ((i * 20) % 100),
     height |-> 60 + ((i * 15) % 80)]

\* _mock_object_detection: the objects at or above the threshold, in list
\* order, each with its bounding box; the first of them raises
\* ZeroDivisionError when width - 100 or height - 80 is zero
_mock_object_detection(width, height, threshold) ==
    LET passing == SelectSeq([i \in 1..Len(mock_objects) |-> i],
                             LAMBDA i : mock_objects[i].confidence >= threshold)
    IN IF MockDetectionRaises(width, height, threshold)
       THEN [raised |-> TRUE, exc |-> "ZeroDivisionError", objects |-> <<>>]
       ELSE [raised |-> FALSE, exc |-> "",
             objects |-> [k \in 1..Len(passing) |->
                            [name |-> mock_objects[passing[k]].name,
                             confidence |-> mock_objects[passing[k]].confidence,
                             boundingBox |->
                                 MockBoundingBox(passing[k] - 1, width, height)]]]

\* objects.sort(key=lambda x: x["confidence"], reverse=True); the mock
\* confidences are pairwise different
SortByConfidence(objects) ==
    [k \in 1..Len(objects) |->
        objects[CHOOSE i \in 1..Len(objects) :
                   Cardinality({j \in 1..Len(objects) :
                                   objects[j].confidence > objects[i].confidence})
                       = k - 1]]

\* image sizes and thresholds (in percent) of the calls of detect_objects
DetectWidths == {1, 50, 100, 101, 640}

DetectHeights == {1, 30, 80, 81, 480}

DetectThresholds == {30, 70, 90, 99}

\* detect_objects called on its own: the YOLO model when it is loaded (its
\* boxes are left out), the mock detection otherwise; the objects are sorted
\* by confidence; every exception is re-raised
DetectObjectsCall ==
    /\ unit = "accessibility_service"
    /\ pc = "idle"
    /\ \E width \in DetectWidths, height \in DetectHeights,
          threshold \in DetectThresholds, ok \in BOOLEAN :
          LET r == detect_objects(width, height, threshold, svc, ok)
              objects == IF svc.object_detection_model THEN <<>>
                         ELSE _mock_object_detection(width, height, threshold).objects
          IN /\ args' = [fn |-> "detect_objects", width |-> width, height |-> height,
                         confidence_threshold |-> threshold]
             /\ result' = IF r.raised THEN None
                          ELSE Some([objects |-> SortByConfidence(objects),
                                     totalObjects |-> Len(objects),
                                     confidenceThreshold |-> threshold])
             /\ exc' = r.exc
             /\ outcome' = IF r.raised THEN "raised" ELSE "returned"
    /\ pc' = "done"
    /\ invoked' = <<>>
    /\ UNCHANGED <<envVars, tempfiles, response>>

\* the image_data describe_scene hands to ocr_service.extract_text
ImageBytes == [kind |-> "bytes", exists |-> FALSE, size |-> 1024, suffix |-> ""]

DescribeSceneCall ==
    /\ unit = "accessibility_service"
    /\ pc = "idle"
    /\ \E size \in ImageSizes, include_objects \in BOOLEAN, include_text \in BOOLEAN :
          args' = [fn |-> "describe_scene", width |-> size[1], height |-> size[2],
                   include_objects |-> include_objects,
                   include_text |-> include_text,
                   objects_done |-> FALSE, text_done |-> FALSE]
    /\ pc' = "describe_objects"
    /\ invoked' = <<>>
    /\ result' = None
    /\ outcome' = "running"
    /\ exc' = ""
    /\ UNCHANGED <<envVars, tempfiles, response>>

DescribeObjects ==
    /\ pc = "describe_objects"
    /\ IF args.include_objects
       THEN \E ok \in BOOLEAN :
               LET r == detect_objects(args.width, args.height, DescribeThreshold,
                                       svc, ok)
               IN /\ args' = [args EXCEPT !.objects_done = ~r.raised]
                  /\ exc' = r.exc
                  /\ outcome' = IF r.raised THEN "raised" ELSE outcome
                  /\ pc' = IF r.raised THEN "done" ELSE "describe_text"
       ELSE /\ pc' = "describe_text"
            /\ UNCHANGED <<args, exc, outcome>>
    /\ UNCHANGED <<envVars, invoked, result, tempfiles, response>>

\* `from .ocr_service import ocr_service` constructs the OCRService, then
\* extract_text is awaited with the image bytes
DescribeText ==
    /\ pc = "describe_text"
    /\ IF ~args.include_text
       THEN /\ pc' = "describe_return"
            /\ UNCHANGED <<args, invoked, result, outcome, exc>>
       ELSE IF available_providers(svc) = <<>>
       THEN /\ pc' = "done"
            /\ outcome' = "raised"
            /\ exc' = "RuntimeError"
            /\ UNCHANGED <<args, invoked, result>>
       ELSE ExtractTextEnter(ImageBytes, "",
                             Some([pc |-> "describe_after_text", args |-> args]))
    /\ UNCHANGED <<envVars, tempfiles, response>>

\* the exception of extract_text is logged and re-raised by describe_scene
DescribeAfterText ==
    /\ pc = "describe_after_text"
    /\ IF outcome = "raised"
       THEN /\ pc' = "done"
            /\ UNCHANGED <<args, outcome>>
       ELSE /\ pc' = "describe_return"
            /\ args' = [args EXCEPT !.text_done = TRUE]
            /\ outcome' = "running"
    /\ UNCHANGED <<envVars, invoked, result, exc, tempfiles, response>>

DescribeReturn ==
    /\ pc = "describe_return"
    /\ result' = Some([description |-> "scene", objects_done |-> args.objects_done,
                       text_done |-> args.text_done, confidence |-> 85])
    /\ outcome' = "returned"
    /\ pc' = "done"
    /\ UNCHANGED <<envVars, args, invoked, exc, tempfiles, response>>

(***************************************************************************)
(* app/main.py: the FastAPI application and its routes.  A path is the     *)
(* sequence of its segments: "/ai/health/" is <<"ai", "health", "">>.      *)
(***************************************************************************)
AppSettings == [ENVIRONMENT : {"development", "production"}]

\* app/api/v1/health.py, mounted by api.py under "/health" and by main.py
\* under "/ai"
ApiPrefix == <<"ai">>

HealthPrefix == <<"health">>

HealthRouter ==
    {[method |-> "GET", path |-> <<"">>, endpoint |-> "api_health_check"],
     [method |-> "GET", path |-> <<"detailed">>, endpoint |-> "detailed_health_check"],
     [method |-> "GET", path |-> <<"ready">>, endpoint |-> "readiness_check"]}

IncludeRouter(routes, prefix) ==
    {[method |-> r.method, path |-> prefix \o r.path, endpoint |-> r.endpoint] :
        r \in routes}

AppRoutes ==
    IncludeRouter(IncludeRouter(HealthRouter, HealthPrefix), ApiPrefix)
    \cup {[method |-> "GET", path |-> <<"health">>, endpoint |-> "health_check"],
          [method |-> "GET", path |-> <<"">>, endpoint |-> "root"]}

\* the body an endpoint returns; db: whether MongoDB and Redis answer
EndpointBody(endpoint, settings, db) ==
    CASE endpoint = "health_check" ->
            [status |-> "healthy", service |-> "vision-ai-service",
             version |-> "1.0.0", environment |-> settings.ENVIRONMENT]
      [] endpoint = "root" ->
            [message |-> "Vision Platform AI Service", version |-> "1.0.0",
             docs |-> "/docs", health |-> "/health"]
      [] endpoint = "api_health_check" ->
            [status |-> "healthy", service |-> "vision-ai-service",
             version |-> "1.0.0"]
      [] endpoint = "detailed_health_check" ->
            [status |-> IF db THEN "healthy" ELSE "degraded",
             service |-> "vision-ai-service", version |-> "1.0.0"]
      [] OTHER ->
            [status |-> IF db THEN "ready" ELSE "not_ready"]

\* the path with its trailing slash added or removed (redirect_slashes)
SlashVariant(path) ==
    IF path # <<>> /\ path[Len(path)] = "" /\ Len(path) > 1
    THEN SubSeq(path, 1, Len(path) - 1)
    ELSE path \o <<"">>

not_found_handler == [status_code |-> 404, content |-> [detail |-> "Endpoint not found"]]

\* Starlette's router: a full match calls the endpoint, a path match with
\* another method is 405, a match of the slash variant redirects, anything
\* else is the HTTPException(404) that not_found_handler answers
Dispatch(routes, method, path, settings, db) ==
    IF \E r \in routes : r.path = path /\ r.method = method
    THEN LET r == CHOOSE q \in routes : q.path = path /\ q.method = method
         IN [status_code |-> 200, content |-> EndpointBody(r.endpoint, settings, db)]
    ELSE IF \E r \in routes : r.path = path
    THEN [status_code |-> 405, content |-> [detail |-> "Method Not Allowed"]]
    ELSE IF \E r \in routes : r.path = SlashVariant(path)
    THEN [status_code |-> 307, content |-> [detail |-> "redirect"]]
    ELSE not_found_handler

RequestPaths ==
    {<<"health">>, <<"api", "health">>, <<"ai", "health">>, <<"ai", "health", "">>,
     <<"ai", "health", "ready">>, <<"ai", "health", "detailed">>, <<"">>,
     <<"health", "">>, <<"nope">>}

AppMainRequest ==
    /\ unit = "app.main"
    /\ pc = "idle"
    /\ \E method \in {"GET", "POST"}, path \in RequestPaths, db \in BOOLEAN :
          /\ args' = [fn |-> "request", method |-> method, path |-> path]
          /\ response' = Some(Dispatch(AppRoutes, method, path, svc, db))
    /\ pc' = "done"
    /\ outcome' = "returned"
    /\ UNCHANGED <<envVars, invoked, result, exc, tempfiles>>

(***************************************************************************)
(* services/ai/main.py: POST /translate                                    *)
(***************************************************************************)
supported_languages == {"en", "es", "fr", "de", "it", "pt", "ru", "ja", "ko", "zh"}

\* languages of the requests in the model: two supported, one not
RequestLangs == {"en", "es", "xx"}

\* MockTranslationModel.translate
MockTranslate(text, source_lang, target_lang) ==
    [translated_text |->
        IF source_lang \in {"en", "es", "fr"} /\ target_lang \in {"en", "es", "fr", "de"}
           /\ source_lang # target_lang
        THEN <<"mock_translations", target_lang>>
        ELSE <<"[", target_lang, "] ", text>>,
     confidence |-> 85, model_used |-> "mock-marian"]

\* the try body of translate_text: the HTTPException it raises, or the
\* TranslationResponse; called: whether translation_model.translate ran
TranslateTextBody(req) ==
    IF req.source_lang \notin supported_languages
    THEN [raised |-> TRUE, called |-> FALSE,
          exc |-> [status_code |-> 400,
                   detail |-> <<"Unsupported source language: ", req.source_lang>>]]
    ELSE IF req.target_lang \notin supported_languages
    THEN [raised |-> TRUE, called |-> FALSE,
          exc |-> [status_code |-> 400,
                   detail |-> <<"Unsupported target language: ", req.target_lang>>]]
    ELSE [raised |-> FALSE, called |-> TRUE,
          value |-> MockTranslate(req.text, req.source_lang, req.target_lang)]

\* translate_text: `except Exception` also catches the HTTPException raised in
\* the try body and replaces it by HTTPException(500, "Translation failed")
translate_text(req) ==
    LET b == TranslateTextBody(req)
    IN IF b.raised
       THEN [raised |-> TRUE, called |-> b.called,
             exc |-> [status_code |-> 500, detail |-> <<"Translation failed">>]]
       ELSE b

http_exception_handler(e) ==
    [status_code |-> e.status_code, content |-> [error |-> e.detail]]

MainTranslateRequest ==
    /\ unit = "main"
    /\ pc = "idle"
    /\ \E text \in Texts, source_lang \in RequestLangs, target_lang \in RequestLangs :
          LET req == [text |-> text, source_lang |-> source_lang,
                      target_lang |-> target_lang]
              r == translate_text(req)
          IN /\ args' = [fn |-> "translate_text", req |-> req]
             /\ invoked' = IF r.called
                           THEN <<[fn |-> "translation_model.translate", ok |-> TRUE]>>
                           ELSE <<>>
             /\ response' = IF r.raised
                            THEN Some(http_exception_handler(r.exc))
                            ELSE Some([status_code |-> 200, content |-> r.value])
             /\ outcome' = IF r.raised THEN "raised" ELSE "returned"
    /\ pc' = "done"
    /\ UNCHANGED <<envVars, result, exc, tempfiles>>

(***************************************************************************)
(* services/ai/routers/ocr.py: POST /batch-extract                         *)
(***************************************************************************)
ContentTypes == {"image/png", "text/plain"}

\* file.content_type.startswith('image/')
IsImage(content_type) == content_type = "image/png"

\* batch_extract_text: the content types are checked, the files read, and
\* ocr_service.batch_process looked up, which OCRService does not define.
\* `except Exception` turns every exception, the HTTPException(400) included,
\* into HTTPException(500, str(e)).
batch_extract_text(files) ==
    IF \E i \in 1..Len(files) : ~IsImage(files[i])
    THEN [status_code |-> 500, content |-> [detail |-> <<"400", "All files must be images">>]]
    ELSE IF "batch_process" \notin OCRServiceAttrs
    THEN [status_code |-> 500, content |-> [detail |-> <<"AttributeError", "batch_process">>]]
    ELSE [status_code |-> 200, content |-> [results |-> files]]

BatchExtractRequest ==
    /\ unit = "routers.ocr"
    /\ pc = "idle"
    /\ \E n \in 1..MaxFiles :
          \E files \in [1..n -> ContentTypes] :
             /\ args' = [fn |-> "batch_extract_text", files |-> files]
             /\ response' = Some(batch_extract_text(files))
    /\ pc' = "done"
    /\ outcome' = "returned"
    /\ UNCHANGED <<envVars, invoked, result, exc, tempfiles>>

(***************************************************************************)
(* services/ai/routers/ocr.py: POST /extract                               *)
(***************************************************************************)
\* extract_text of the router: the content type is checked, the file read and
\* ocr_service.extract_text called with the bytes (language is passed where
\* extract_text takes the provider).  `except Exception` turns every
\* exception, the HTTPException(400) included, into HTTPException(500, str(e)).
routers_ocr_extract_text(content_type, sv) ==
    LET content == [kind |-> "bytes", exists |-> FALSE, size |-> 1024, suffix |-> ""]
    IN IF ~IsImage(content_type)
       THEN [status_code |-> 500,
             content |-> [detail |-> <<"400", "File must be an image">>]]
       ELSE IF ValidateFile(content, sv) # ""
       THEN [status_code |-> 500,
             content |-> [detail |-> <<ValidateFile(content, sv)>>]]
       ELSE [status_code |-> 200,
             content |-> [provider |-> SelectProvider("en", sv)]]

ExtractRequest ==
    /\ unit = "routers.ocr"
    /\ pc = "idle"
    /\ \E content_type \in ContentTypes :
          /\ args' = [fn |-> "routers.ocr.extract_text", content_type |-> content_type]
          /\ response' = Some(routers_ocr_extract_text(content_type, svc))
    /\ pc' = "done"
    /\ outcome' = "returned"
    /\ UNCHANGED <<envVars, invoked, result, exc, tempfiles>>

(***************************************************************************)
(* app/api/v1/ocr.py, app/api/v1/speech.py: the placeholder upload         *)
(* endpoints, mounted under /ocr and /speech by app/api/v1/api.py          *)
(***************************************************************************)
UploadContentTypes == {"image/png", "audio/wav", "text/plain"}

UploadLanguages == {"auto", "en", "es"}

\* file.content_type.startswith("audio/")
IsAudio(content_type) == content_type = "audio/wav"

\* `language if language != "auto" else "en"`
UploadLanguage(language) == IF language # "auto" THEN language ELSE "en"

\* upload_image_for_ocr: the HTTPException(400) of the type check is raised
\* inside the try block, whose `except Exception` replaces it by
\* HTTPException(500, "Image OCR failed")
upload_image_for_ocr(content_type, filename, language) ==
    IF ~IsImage(content_type)
    THEN [status_code |-> 500, content |-> [detail |-> <<"Image OCR failed">>]]
    ELSE [status_code |-> 200,
          content |-> [text |-> <<"Text extracted from ", filename>>,
                       language |-> UploadLanguage(language),
                       confidence |-> 85, filename |-> filename]]

\* upload_audio_for_stt: same shape, with HTTPException(500, "Audio STT failed")
upload_audio_for_stt(content_type, filename, language) ==
    IF ~IsAudio(content_type)
    THEN [status_code |-> 500, content |-> [detail |-> <<"Audio STT failed">>]]
    ELSE [status_code |-> 200,
          content |-> [text |-> <<"Audio content transcribed from ", filename>>,
                       language |-> UploadLanguage(language),
                       confidence |-> 85, filename |-> filename]]

UploadImageRequest ==
    /\ unit = "app.api.v1"
    /\ pc = "idle"
    /\ \E content_type \in UploadContentTypes, language \in UploadLanguages :
          /\ args' = [fn |-> "upload_image_for_ocr", content_type |-> content_type,
                      filename |-> "scan", language |-> language]
          /\ response' = Some(upload_image_for_ocr(content_type, "scan", language))
    /\ pc' = "done"
    /\ outcome' = "returned"
    /\ UNCHANGED <<envVars, invoked, result, exc, tempfiles>>

UploadAudioRequest ==
    /\ unit = "app.api.v1"
    /\ pc = "idle"
    /\ \E content_type \in UploadContentTypes, language \in UploadLanguages :
          /\ args' = [fn |-> "upload_audio_for_stt", content_type |-> content_type,
                      filename |-> "memo", language |-> language]
          /\ response' = Some(upload_audio_for_stt(content_type, "memo", language))
    /\ pc' = "done"
    /\ outcome' = "returned"
    /\ UNCHANGED <<envVars, invoked, result, exc, tempfiles>>

\* the routers of app/api/v1/api.py share no state
InitApiV1 == unit = "app.api.v1" /\ svc = [api_router |-> "v1"]

(***************************************************************************)
(* app/routers/ocr.py: POST /ocr/extract and POST /ocr/batch               *)
(***************************************************************************)
\* int(os.getenv('MAX_FILE_SIZE', 52428800))
RouterMaxFileSize == 52428800

\* os.getenv('SUPPORTED_FORMATS', 'pdf,jpg,jpeg,png,tiff').split(',')
RouterSupportedFormats == {"pdf", "jpg", "jpeg", "png", "tiff"}

\* `if len(files) > 10`
BatchLimit == 10

\* the uploads of the model: unnamed, a valid image, an oversize image, an
\* unsupported format, a valid PDF; size is len(content)
UnnamedUpload == [filename |-> "", suffix |-> "", size |-> 1024]

ImageUpload == [filename |-> "scan.png", suffix |-> ".png", size |-> 1024]

UploadFiles ==
    {UnnamedUpload, ImageUpload,
     [filename |-> "big.png", suffix |-> ".png", size |-> RouterMaxFileSize + 1],
     [filename |-> "anim.gif", suffix |-> ".gif", size |-> 1024],
     [filename |-> "doc.pdf", suffix |-> ".pdf", size |-> 1024]}

\* the lists of POST /ocr/batch: up to MaxFiles uploads of any kind, and one
\* list that is longer than the limit
UploadBatches ==
    UNION {[1..n -> UploadFiles] : n \in 1..MaxFiles}
    \cup {[k \in 1..(BatchLimit + 1) |-> ImageUpload]}

RouterProviders == {"", "google"}

HTTPException(status_code, detail) ==
    [http |-> TRUE, status_code |-> status_code, detail |-> detail]

\* any other exception, by its class name
PyException(name) == [http |-> FALSE, status_code |-> 0, detail |-> <<name>>]

\* FastAPI's answer to an HTTPException that leaves the handler
ErrorResponse(e) == [status_code |-> e.status_code, content |-> [detail |-> e.detail]]

\* lines 30-53: the HTTPException the validation raises, None when it passes
RouterValidate(file) ==
    IF file.filename = ""
    THEN Some(HTTPException(400, <<"No file provided">>))
    ELSE IF file.size > RouterMaxFileSize
    THEN Some(HTTPException(400, <<"File too large">>))
    ELSE IF FileExtension(file.suffix) \notin RouterSupportedFormats
    THEN Some(HTTPException(400, <<"Unsupported file format: ",
                                   FileExtension(file.suffix)>>))
    ELSE None

\* the except clauses of extract_text, with every exception turned into 500
extract_except_blanket(e) ==
    HTTPException(500, <<"OCR processing failed: ">> \o e.detail)

\* the except clauses of extract_text: `except HTTPException: raise`, then
\* `except Exception` raising HTTPException(500)
extract_except(e) ==
    IF e.http THEN e
    ELSE HTTPException(500, <<"OCR processing failed: ">> \o e.detail)

\* the except clauses of batch_extract_text
batch_except(e) ==
    IF e.http THEN e
    ELSE HTTPException(500, <<"Batch OCR processing failed: ">> \o e.detail)

\* the temporary file made for the i-th upload of a request
UploadTempFile(i) == <<"upload", i>>

\* suffix=f".{file_extension}" of the temporary file
TempSuffix(file) == IF FileExtension(file.suffix) = "pdf" THEN ".pdf" ELSE ".png"

\* the temporary file as ocr_service.extract_text finds it
TempPathFile(file) ==
    [kind |-> "path", exists |-> TRUE, size |-> file.size, suffix |-> TempSuffix(file)]

\* result["filename"] = file.filename
WithFilename(r, file) == [filename |-> file.filename] @@ r

\* extract_text up to `await ocr_service.extract_text`: validation, then the
\* temporary file is created and written inside the `with`, before the inner
\* try is entered; written: whether temp_file.write succeeds
OcrExtractRequest ==
    /\ unit = "app.routers.ocr"
    /\ pc = "idle"
    /\ \E file \in UploadFiles, provider \in RouterProviders, written \in BOOLEAN :
          LET v == RouterValidate(file)
              frame == [fn |-> "app.routers.ocr.extract_text", file |-> file,
                        provider |-> provider,
                        created |-> IF v = None THEN {UploadTempFile(1)} ELSE {},
                        unlinked |-> {},
                        ocr_calls |-> IF v = None /\ written THEN 1 ELSE 0]
          IN IF v # None
             THEN /\ args' = frame
                  /\ response' = Some(ErrorResponse(extract_except(Val(v))))
                  /\ outcome' = "raised"
                  /\ pc' = "done"
                  /\ UNCHANGED <<invoked, result, exc, tempfiles>>
             ELSE IF ~written
             THEN /\ args' = frame
                  /\ tempfiles' = tempfiles \cup {UploadTempFile(1)}
                  /\ response' = Some(ErrorResponse(extract_except(PyException("OSError"))))
                  /\ outcome' = "raised"
                  /\ pc' = "done"
                  /\ UNCHANGED <<invoked, result, exc>>
             ELSE /\ tempfiles' = tempfiles \cup {UploadTempFile(1)}
                  /\ ExtractTextEnter(TempPathFile(file), provider,
                                      Some([pc |-> "ocr_extract_after", args |-> frame]))
                  /\ UNCHANGED response
    /\ UNCHANGED envVars

\* after the await: the result is wrapped, or the exception taken by the
\* except clauses; the finally clause unlinks the temporary file on both ways
OcrExtractAfter ==
    /\ pc = "ocr_extract_after"
    /\ tempfiles' = tempfiles \ {UploadTempFile(1)}
    /\ args' = [args EXCEPT !.unlinked = @ \cup {UploadTempFile(1)}]
    /\ response' =
          IF outcome = "returned"
          THEN Some([status_code |-> 200,
                     content |-> [success |-> TRUE,
                                  data |-> WithFilename(Val(result), args.file)]])
          ELSE Some(ErrorResponse(extract_except(PyException(exc))))
    /\ pc' = "done"
    /\ UNCHANGED <<envVars, invoked, result, outcome, exc>>

\* batch_extract_text up to the loop
OcrBatchRequest ==
    /\ unit = "app.routers.ocr"
    /\ pc = "idle"
    /\ \E files \in UploadBatches, provider \in RouterProviders :
          LET frame == [fn |-> "app.routers.ocr.batch_extract_text",
                        files |-> files, provider |-> provider, i |-> 0,
                        results |-> <<>>, temp_files |-> <<>>, raised |-> None,
                        created |-> {}, unlinked |-> {}, ocr_calls |-> 0]
          IN /\ args' = frame
             /\ IF Len(files) > BatchLimit
                THEN /\ response' =
                           Some(ErrorResponse(batch_except(
                               HTTPException(400, <<"Batch too large. Maximum 10 files per request">>))))
                     /\ outcome' = "raised"
                     /\ pc' = "done"
                ELSE /\ response' = None
                     /\ outcome' = "running"
                     /\ pc' = "ocr_batch_loop"
    /\ invoked' = <<>>
    /\ result' = None
    /\ exc' = ""
    /\ UNCHANGED <<envVars, tempfiles>>

\* one turn of `for i, file in enumerate(files)` up to the await
OcrBatchLoop ==
    /\ pc = "ocr_batch_loop"
    /\ IF args.i >= Len(args.files)
       THEN /\ pc' = "ocr_batch_finally"
            /\ UNCHANGED <<args, invoked, result, outcome, exc, tempfiles>>
       ELSE LET file == args.files[args.i + 1]
                temp_path == UploadTempFile(args.i + 1)
            IN IF file.filename = ""
               THEN /\ args' = [args EXCEPT !.i = @ + 1]
                    /\ UNCHANGED <<pc, invoked, result, outcome, exc, tempfiles>>
               ELSE IF file.size > RouterMaxFileSize
               THEN /\ args' = [args EXCEPT !.i = @ + 1,
                                   !.results = Append(@, [filename |-> file.filename,
                                                          error |-> <<"File too large">>])]
                    /\ UNCHANGED <<pc, invoked, result, outcome, exc, tempfiles>>
               ELSE IF FileExtension(file.suffix) \notin RouterSupportedFormats
               THEN /\ args' = [args EXCEPT !.i = @ + 1,
                                   !.results = Append(@, [filename |-> file.filename,
                                                          error |-> <<"Unsupported format: ",
                                                                      FileExtension(file.suffix)>>])]
                    /\ UNCHANGED <<pc, invoked, result, outcome, exc, tempfiles>>
               ELSE \E written \in BOOLEAN :
                       /\ tempfiles' = tempfiles \cup {temp_path}
                       /\ IF written
                          THEN ExtractTextEnter(
                                   TempPathFile(file), args.provider,
                                   Some([pc |-> "ocr_batch_after",
                                         args |-> [args EXCEPT
                                                      !.created = @ \cup {temp_path},
                                                      !.temp_files = Append(@, temp_path),
                                                      !.ocr_calls = @ + 1]]))
                          ELSE /\ args' = [args EXCEPT
                                              !.created = @ \cup {temp_path},
                                              !.raised = Some(PyException("OSError"))]
                               /\ pc' = "ocr_batch_finally"
                               /\ UNCHANGED <<invoked, result, outcome, exc>>
    /\ UNCHANGED <<envVars, response>>

\* lines 161-172, with the exception of OCR ending the loop instead of being
\* caught
AfterOcrAbort(a, file, out, res, e) ==
    IF out = "returned"
    THEN [a EXCEPT !.i = @ + 1, !.results = Append(@, WithFilename(Val(res), file))]
    ELSE [a EXCEPT !.i = Len(a.files), !.raised = Some(PyException(e))]

\* lines 161-172: the result, or the exception caught by the inner
\* `except Exception`, becomes one entry of results; the loop goes on
AfterOcr(a, file, out, res, e) ==
    IF out = "returned"
    THEN [a EXCEPT !.i = @ + 1, !.results = Append(@, WithFilename(Val(res), file))]
    ELSE [a EXCEPT !.i = @ + 1,
                   !.results = Append(@, [filename |-> file.filename, error |-> <<e>>])]

OcrBatchAfter ==
    /\ pc = "ocr_batch_after"
    /\ args' = AfterOcr(args, args.files[args.i + 1], outcome, result, exc)
    /\ exc' = ""
    /\ result' = None
    /\ outcome' = "running"
    /\ pc' = "ocr_batch_loop"
    /\ UNCHANGED <<envVars, invoked, tempfiles, response>>

\* `for temp_path in temp_files`
TempFilesOf(temp_files) == {temp_files[k] : k \in 1..Len(temp_files)}

\* len([r for r in results if "error" in r])
Failed(results) ==
    Cardinality({k \in 1..Len(results) : "error" \in DOMAIN results[k]})

\* len([r for r in results if "error" not in r])
Successful(results) ==
    Cardinality({k \in 1..Len(results) : "error" \notin DOMAIN results[k]})

\* the finally clause unlinks what temp_files lists; then the summary is
\* returned, or the exception taken by the except clauses
OcrBatchFinally ==
    /\ pc = "ocr_batch_finally"
    /\ tempfiles' = tempfiles \ TempFilesOf(args.temp_files)
    /\ args' = [args EXCEPT !.unlinked = @ \cup TempFilesOf(args.temp_files)]
    /\ IF args.raised = None
       THEN /\ response' =
                  Some([status_code |-> 200,
                        content |->
                           [success |-> TRUE,
                            data |-> [results |-> args.results,
                                      summary |->
                                         [total_files |-> Len(args.files),
                                          successful |-> Successful(args.results),
                                          failed |-> Failed(args.results)]]]])
            /\ outcome' = "returned"
       ELSE /\ response' = Some(ErrorResponse(batch_except(Val(args.raised))))
            /\ outcome' = "raised"
    /\ pc' = "done"
    /\ UNCHANGED <<envVars, invoked, result, exc>>

\* `from ..services.ocr_service import ocr_service`
InitAppOCRRouter == unit = "app.routers.ocr" /\ svc \in OCRServices

(***************************************************************************)
(* app/api/v1/translation.py: POST /translation/translate and              *)
(* POST /translation/translate-batch                                       *)
(***************************************************************************)
MaxTexts == 2

\* a text is a sequence of words; str.replace acts on the words
ApiTexts == {<<"hello", "world">>, <<"hola", "mundo">>, <<"hola">>, <<"bonjour">>}

ApiTextLists == UNION {[1..n -> ApiTexts] : n \in 1..MaxTexts}

ApiLangs == {"en", "es", "fr"}

\* text.replace(old, new)
Replace(text, old, new) ==
    [k \in 1..Len(text) |-> IF text[k] = old THEN new ELSE text[k]]

\* f"[{request.target_lang.upper()}] {text}"
Tagged(target_lang, text) == <<"[", Upper[target_lang], "] ">> \o text

\* lines 59-64 of translate_text
PlaceholderTranslate(text, source_lang, target_lang) ==
    IF source_lang = "en" /\ target_lang = "es"
    THEN Replace(Replace(text, "hello", "hola"), "world", "mundo")
    ELSE IF source_lang = "es" /\ target_lang = "en"
    THEN Replace(Replace(text, "hola", "hello"), "mundo", "world")
    ELSE Tagged(target_lang, text)

\* lines 94-99 of translate_batch: the second replace of the es -> en branch
\* is .replace("world", "world")
PlaceholderTranslateBatch(text, source_lang, target_lang) ==
    IF source_lang = "en" /\ target_lang = "es"
    THEN Replace(Replace(text, "hello", "hola"), "world", "mundo")
    ELSE IF source_lang = "es" /\ target_lang = "en"
    THEN Replace(Replace(text, "hola", "hello"), "world", "world")
    ELSE Tagged(target_lang, text)

TranslationResponse(translated, source_lang, target_lang) ==
    [translated_text |-> translated, source_lang |-> source_lang,
     target_lang |-> target_lang, confidence |-> 85, model_used |-> "marian"]

v1_translate_text(text, source_lang, target_lang) ==
    [status_code |-> 200,
     content |-> TranslationResponse(
                     PlaceholderTranslate(text, source_lang, target_lang),
                     source_lang, target_lang)]

v1_translate_batch(texts, source_lang, target_lang) ==
    [status_code |-> 200,
     content |-> [translations |->
                     [k \in 1..Len(texts) |->
                         TranslationResponse(
                             PlaceholderTranslateBatch(texts[k], source_lang,
                                                       target_lang),
                             source_lang, target_lang)]]]

V1TranslateRequest ==
    /\ unit = "app.api.v1"
    /\ pc = "idle"
    /\ \E text \in ApiTexts, source_lang \in ApiLangs, target_lang \in ApiLangs :
          /\ args' = [fn |-> "v1.translate_text", text |-> text,
                      source_lang |-> source_lang, target_lang |-> target_lang]
          /\ response' = Some(v1_translate_text(text, source_lang, target_lang))
    /\ pc' = "done"
    /\ outcome' = "returned"
    /\ UNCHANGED <<envVars, invoked, result, exc, tempfiles>>

V1TranslateBatchRequest ==
    /\ unit = "app.api.v1"
    /\ pc = "idle"
    /\ \E texts \in ApiTextLists, source_lang \in ApiLangs, target_lang \in ApiLangs :
          /\ args' = [fn |-> "v1.translate_batch", texts |-> texts,
                      source_lang |-> source_lang, target_lang |-> target_lang]
          /\ response' = Some(v1_translate_batch(texts, source_lang, target_lang))
    /\ pc' = "done"
    /\ outcome' = "returned"
    /\ UNCHANGED <<envVars, invoked, result, exc, tempfiles>>

(***************************************************************************)
(* The caller takes the result or the exception; the next call can start.  *)
(***************************************************************************)
Finish ==
    /\ pc = "done"
    /\ pc' = "idle"
    /\ args' = NoArgs
    /\ invoked' = <<>>
    /\ result' = None
    /\ outcome' = "none"
    /\ exc' = ""
    /\ response' = None
    /\ tempfiles' = {}
    /\ UNCHANGED envVars

InitTranslation == unit = "translation_service" /\ svc \in TranslationServices

InitSpeech == unit = "speech_service" /\ svc \in SpeechServices

InitOCR == unit = "ocr_service" /\ svc \in OCRServices

InitAccessibility == unit = "accessibility_service" /\ svc \in AccessibilityServices

InitAppMain == unit = "app.main" /\ svc \in AppSettings

InitMain == unit = "main" /\ svc = [name |-> "mock-marian"]

InitOCRRouter == unit = "routers.ocr" /\ svc \in OCRServices

Init ==
    /\ \/ InitTranslation
       \/ InitSpeech
       \/ InitOCR
       \/ InitAccessibility
       \/ InitAppMain
       \/ InitMain
       \/ InitOCRRouter
       \/ InitApiV1
       \/ InitAppOCRRouter
    /\ pc = "idle"
    /\ args = NoArgs
    /\ invoked = <<>>
    /\ result = None
    /\ outcome = "none"
    /\ exc = ""
    /\ tempfiles = {}
    /\ response = None

Next ==
    \/ TranslateCall
    \/ TranslateOpenAI
    \/ TranslateGoogle
    \/ TranslateLocal
    \/ TranslateReturn
    \/ SpeechToTextCall
    \/ SttProvider
    \/ SttMock
    \/ SttFinally
    \/ ExtractTextCall
    \/ ProcessImage
    \/ PdfConvert
    \/ PdfPage
    \/ PdfOcr
    \/ PdfUnlink
    \/ ExtractTextExit
    \/ BatchProcessCall
    \/ DetectObjectsCall
    \/ DescribeSceneCall
    \/ DescribeObjects
    \/ DescribeText
    \/ DescribeAfterText
    \/ DescribeReturn
    \/ AppMainRequest
    \/ MainTranslateRequest
    \/ BatchExtractRequest
    \/ ExtractRequest
    \/ UploadImageRequest
    \/ UploadAudioRequest
    \/ OcrExtractRequest
    \/ OcrExtractAfter
    \/ OcrBatchRequest
    \/ OcrBatchLoop
    \/ OcrBatchAfter
    \/ OcrBatchFinally
    \/ V1TranslateRequest
    \/ V1TranslateBatchRequest
    \/ Finish

Spec == Init /\ [][Next]_vars

(***************************************************************************)
(* Properties                                                              *)
(***************************************************************************)
AtDone(fn) == pc = "done" /\ args.fn = fn

FailedCalls == {i \in 1..Len(invoked) : ~invoked[i].ok}

WasInvoked(fn) == \E i \in 1..Len(invoked) : invoked[i].fn = fn

\* the model name each translation provider puts in its result
TranslationModelOf(fn) ==
    CASE fn = "_openai_translate" -> {"openai-gpt-3.5-turbo"}
      [] fn = "_google_translate" -> {"google-translate"}
      [] OTHER -> {"mock-local", "local"}

\* C1: translate never raises because a provider failed: every call returns
\* a result, that of the first provider (OpenAI, Google, local model) that
\* succeeded, or the mock / identity result when none did.
C1_TranslateNeverRaises ==
    AtDone("translate") =>
        /\ outcome = "returned"
        /\ result # None
        /\ \A i \in 1..Len(invoked) :
              (invoked[i].ok /\ \A j \in 1..(i - 1) : ~invoked[j].ok)
                  => Val(result).model \in TranslationModelOf(invoked[i].fn)
        /\ (\A i \in 1..Len(invoked) : ~invoked[i].ok)
              => Val(result).model \in {"mock-local", "fallback"}

\* C2: speech_to_text follows the chain Whisper, SpeechRecognition, mock:
\* when the provider it attempts raises, the next one is attempted, and when
\* no provider succeeds the mock transcription is returned, not an exception.
C2_SpeechFallbackChain ==
    (AtDone("speech_to_text") /\ args.written) =>
        /\ outcome = "returned"
        /\ result # None
        /\ (\E i \in FailedCalls : invoked[i].fn = "_whisper_transcribe")
              => (svc.speech_recognizer /\ svc.PYDUB_AVAILABLE
                     => WasInvoked("_speech_recognition_transcribe"))
        /\ (FailedCalls # {} /\ \A i \in 1..Len(invoked) :
                invoked[i].fn # "_mock_transcribe" => ~invoked[i].ok)
              => Val(result).model = "mock-stt"

\* a valid image file was handed to extract_text directly
ValidImageCall ==
    /\ AtDone("extract_text")
    /\ ValidateFile(args.file, svc) = ""
    /\ args.file_extension # "pdf"

SingleDispatchCall ==
    \/ args.fn \in {"translate", "speech_to_text"}
    \/ (args.fn = "extract_text" /\ args.file_extension # "pdf")

\* C4: no retry: within one call of translate, speech_to_text or extract_text
\* on a single image, each provider function is invoked at most once.
C4_NoRetry ==
    SingleDispatchCall =>
        \A i, j \in 1..Len(invoked) : invoked[i].fn = invoked[j].fn => i = j

\* C4 witness: a translate call in which OpenAI and Google both failed and
\* the local model was still reached
C4_Witness ==
    /\ AtDone("translate")
    /\ Len(invoked) = 3
    /\ ~invoked[1].ok
    /\ ~invoked[2].ok

TranslateOrder ==
    <<"_openai_translate", "_google_translate", "_local_translate">>

Rank(fn) == CHOOSE k \in 1..Len(TranslateOrder) : TranslateOrder[k] = fn

\* the provider was skipped: its availability condition does not hold
Skipped(fn) ==
    CASE fn = "_openai_translate" ->
            ~(args.quality = "high" /\ svc.OPENAI_AVAILABLE /\ svc.api_key)
      [] fn = "_google_translate" -> ~svc.google_translator
      [] OTHER -> FALSE

\* C5: the order OpenAI, Google, local model is fixed: a provider is invoked
\* only after every earlier provider was skipped or failed, so once a
\* provider has produced a result no later one is invoked, and that result
\* is the one returned.
C5_FixedOrder ==
    args.fn = "translate" =>
        /\ \A i, j \in 1..Len(invoked) :
              i < j => Rank(invoked[i].fn) < Rank(invoked[j].fn)
        /\ \A i \in 1..Len(invoked) : i < Len(invoked) => ~invoked[i].ok
        /\ \A i \in 1..Len(invoked) :
              \A k \in 1..(Rank(invoked[i].fn) - 1) :
                 \/ Skipped(TranslateOrder[k])
                 \/ \E j \in 1..(i - 1) :
                       invoked[j].fn = TranslateOrder[k] /\ ~invoked[j].ok
        /\ (pc = "done" /\ invoked # <<>> /\ invoked[Len(invoked)].ok) =>
              /\ outcome = "returned"
              /\ result # None
              /\ Val(result).model
                    \in TranslationModelOf(invoked[Len(invoked)].fn)

\* C5 witness: OpenAI failed, Google succeeded, its result was returned
C5_Witness ==
    /\ AtDone("translate")
    /\ Len(invoked) = 2
    /\ invoked[1] = [fn |-> "_openai_translate", ok |-> FALSE]
    /\ invoked[2] = [fn |-> "_google_translate", ok |-> TRUE]
    /\ outcome = "returned"
    /\ Val(result).model = "google-translate"

\* a GET request to the app of app/main.py was answered
Answered(path) ==
    /\ unit = "app.main"
    /\ AtDone("request")
    /\ args.method = "GET"
    /\ args.path = path

\* C6: GET /health answers 200 with the body {"status": "ok"}.
C6_HealthOk ==
    Answered(<<"health">>) =>
        /\ Val(response).status_code = 200
        /\ Val(response).content = [status |-> "ok"]

\* C7: GET /api/health is routed: it answers 200 with the body
\* {"status": "ok"}, not the 404 handler's response.
C7_ApiHealthRouted ==
    Answered(<<"api", "health">>) =>
        /\ Val(response).status_code = 200
        /\ Val(response).content = [status |-> "ok"]

\* C8: batch OCR returns one result per input: batch_process with n files,
\* and POST /batch-extract with n image uploads, give a list of n results.
C8_BatchOnePerInput ==
    /\ AtDone("batch_process") =>
          /\ outcome = "returned"
          /\ result # None
          /\ Len(Val(result)) = Len(args.files)
    /\ (AtDone("batch_extract_text")
        /\ \A i \in 1..Len(args.files) : IsImage(args.files[i])) =>
          /\ Val(response).status_code = 200
          /\ "results" \in DOMAIN Val(response).content
          /\ Len(Val(response).content.results) = Len(args.files)

\* C9: extract_text accepts in-memory image content (bytes, a file-like
\* object) and returns a result with text, confidence and blocks instead of
\* raising; describe_scene with include_text completes whenever its object
\* detection completes.
C9_InMemoryContent ==
    /\ (AtDone("extract_text") /\ args.file.kind \in {"bytes", "BytesIO", "MagicMock"}) =>
          /\ outcome = "returned"
          /\ result # None
          /\ {"text", "confidence", "blocks"} \subseteq DOMAIN Val(result)
    /\ (AtDone("describe_scene") /\ args.include_text
        /\ (args.include_objects => args.objects_done)) =>
          outcome = "returned"

\* C10: POST /translate answers an unsupported source or target language
\* with status 400 and the detail "Unsupported source/target language: ...",
\* without invoking the translation model.
C10_UnsupportedLanguage400 ==
    (AtDone("translate_text")
     /\ (args.req.source_lang \notin supported_languages
         \/ args.req.target_lang \notin supported_languages)) =>
        /\ Val(response).status_code = 400
        /\ Val(response).content.error
              \in {<<"Unsupported source language: ", args.req.source_lang>>,
                   <<"Unsupported target language: ", args.req.target_lang>>}
        /\ invoked = <<>>

\* C11: the upload endpoints that validate the content type answer a wrong
\* type with status 400 and the 'File must be ...' detail: POST
\* /ocr/upload-image and POST /extract for a type that does not start with
\* 'image/', POST /speech/upload-audio for one that does not start with
\* 'audio/'.
C11_WrongTypeIs400 ==
    /\ (AtDone("upload_image_for_ocr") /\ ~IsImage(args.content_type)) =>
          /\ Val(response).status_code = 400
          /\ Val(response).content.detail = <<"File must be an image">>
    /\ (AtDone("routers.ocr.extract_text") /\ ~IsImage(args.content_type)) =>
          /\ Val(response).status_code = 400
          /\ Val(response).content.detail = <<"File must be an image">>
    /\ (AtDone("upload_audio_for_stt") /\ ~IsAudio(args.content_type)) =>
          /\ Val(response).status_code = 400
          /\ Val(response).content.detail = <<"File must be an audio file">>

RouterCall == pc = "done" /\ args.fn \in {"app.routers.ocr.extract_text",
                                          "app.routers.ocr.batch_extract_text"}

InvalidUpload(file) ==
    \/ file.filename = ""
    \/ file.size > RouterMaxFileSize
    \/ FileExtension(file.suffix) \notin RouterSupportedFormats

NoSideEffect == args.created = {} /\ args.ocr_calls = 0 /\ tempfiles = {}

\* C12: in app/routers/ocr.py a request-level validation failure (for
\* /ocr/extract a missing filename, a content above MAX_FILE_SIZE, an
\* extension outside SUPPORTED_FORMATS; for /ocr/batch more than 10 files)
\* yields status 400 before any temporary file is created and before
\* ocr_service.extract_text is invoked; a 500 only comes from a non-HTTP
\* exception.
C12_Validation400 ==
    /\ (AtDone("app.routers.ocr.extract_text") /\ InvalidUpload(args.file)) =>
          Val(response).status_code = 400 /\ NoSideEffect
    /\ (AtDone("app.routers.ocr.batch_extract_text") /\ Len(args.files) > BatchLimit) =>
          Val(response).status_code = 400 /\ NoSideEffect
    /\ (AtDone("app.routers.ocr.extract_text") /\ Val(response).status_code = 500) =>
          /\ ~InvalidUpload(args.file)
          /\ exc # "" \/ args.ocr_calls = 0
    /\ (AtDone("app.routers.ocr.batch_extract_text") /\ Val(response).status_code = 500) =>
          /\ Len(args.files) <= BatchLimit
          /\ args.raised # None
          /\ ~Val(args.raised).http

C12_Witness ==
    /\ AtDone("app.routers.ocr.extract_text")
    /\ args.file.filename # ""
    /\ args.file.size > RouterMaxFileSize
    /\ Val(response).status_code = 400

\* C13: when a handler of the OCR router returns a response or raises, an
\* unlink has been attempted on every temporary file it created during the
\* request.
C13_NoTempFileLeak == RouterCall => args.created \subseteq args.unlinked

NamedFiles(files) == SelectSeq(files, LAMBDA f : f.filename # "")

\* C14: in /ocr/batch a file that is too large, has an unsupported extension
\* or whose OCR raises contributes one entry {filename, error}; the remaining
\* files are still processed in order and the request answers success=True.
C14_BatchIsolation ==
    /\ [](  (AtDone("app.routers.ocr.batch_extract_text")
             /\ Len(args.files) <= BatchLimit /\ args.raised = None) =>
               LET named == NamedFiles(args.files)
                   results == Val(response).content.data.results
               IN /\ Val(response).status_code = 200
                  /\ Val(response).content.success
                  /\ Len(results) = Len(named)
                  /\ \A k \in 1..Len(named) :
                        /\ results[k].filename = named[k].filename
                        /\ (named[k].size > RouterMaxFileSize
                            \/ FileExtension(named[k].suffix) \notin RouterSupportedFormats)
                           => DOMAIN results[k] = {"filename", "error"})
    /\ [][ (pc = "ocr_batch_after" /\ outcome = "raised") =>
              /\ pc' = "ocr_batch_loop"
              /\ args'.i = args.i + 1
              /\ args'.raised = None
              /\ args'.results =
                    Append(args.results,
                           [filename |-> args.files[args.i + 1].filename,
                            error |-> <<exc>>]) ]_vars

\* a batch whose first file fails in OCR and whose second file is processed
C14_Witness ==
    /\ AtDone("app.routers.ocr.batch_extract_text")
    /\ Val(response).status_code = 200
    /\ Len(args.results) = 2
    /\ "error" \in DOMAIN args.results[1]
    /\ args.results[1].error \notin {<<"File too large">>, <<"Unsupported format: ", "gif">>}
    /\ "error" \notin DOMAIN args.results[2]

\* C15: in every successful response of /ocr/batch, summary.successful +
\* summary.failed equals summary.total_files, the number of files uploaded.
C15_SummaryAccountsForAll ==
    (AtDone("app.routers.ocr.batch_extract_text") /\ Val(response).status_code = 200) =>
        LET summary == Val(response).content.data.summary
        IN /\ summary.total_files = Len(args.files)
           /\ summary.successful + summary.failed = summary.total_files

\* extract_text has processed a file that passes its validation
ValidFileExit ==
    /\ pc = "extract_exit"
    /\ args.fn = "extract_text"
    /\ ValidateFile(args.file, svc) = ""

AvailableSet == {available_providers(svc)[i] : i \in 1..Len(available_providers(svc))}

\* the provider the claim expects for the running call
ExpectedProvider ==
    LET wanted == IF args.provider # "" THEN args.provider ELSE svc.default_provider
    IN IF wanted \in AvailableSet THEN wanted ELSE available_providers(svc)[1]

\* C16: on a valid file, the provider that processes the file is the
\* requested provider (default_provider when none is requested) if it is in
\* available_providers, otherwise the first available provider; the result's
\* 'provider' field names the provider used and is a member of
\* available_providers, which is non-empty for every constructed service.
C16_ProviderSelection ==
    /\ unit \in {"ocr_service", "app.routers.ocr", "routers.ocr"} => AvailableSet # {}
    /\ ValidFileExit =>
          /\ \A i \in 1..Len(invoked) : invoked[i].fn = ProviderFunc[ExpectedProvider]
          /\ exc = "" =>
                /\ Val(result).provider = ExpectedProvider
                /\ Val(result).provider \in AvailableSet

\* no provider requested, the default is available without being the first
\* available provider, and it has processed the file
C16_Witness ==
    /\ ValidFileExit
    /\ args.provider = ""
    /\ svc.default_provider \in AvailableSet
    /\ svc.default_provider # available_providers(svc)[1]
    /\ exc = ""
    /\ Len(invoked) = 1
    /\ Val(result).provider = svc.default_provider

PageTempFiles == {t \in tempfiles : t[1] = "png"}

\* C17: _process_pdf leaves no per-page temporary image behind: at every exit
\* of _process_pdf (result or exception) none of the temporary files it
\* created exists, and at most one exists at any time.
C17_NoPageTempFileLeft ==
    /\ (pc = "extract_exit" /\ args.fn = "extract_text"
        /\ args.file_extension = "pdf") => PageTempFiles = {}
    /\ Cardinality(PageTempFiles) <= 1

\* C18: once speech_to_text has written its temporary .wav file, the file no
\* longer exists when speech_to_text returns a result or raises, whichever
\* provider was used and whether it failed.
C18_AudioTempFileRemoved ==
    (AtDone("speech_to_text") /\ args.written) => args.temp_file_path \notin tempfiles

\* the provider raised and the file is gone
C18_Witness ==
    /\ AtDone("speech_to_text")
    /\ args.written
    /\ outcome = "raised"
    /\ FailedCalls # {}
    /\ args.temp_file_path \notin tempfiles

\* C19: for every source_lang, target_lang and list of texts, the
\* translated_text that POST /translation/translate-batch returns for each
\* text equals the translated_text that POST /translation/translate returns
\* for that text with the same language pair.
C19_BatchAgreesWithSingle ==
    AtDone("v1.translate_batch") =>
        \A k \in 1..Len(args.texts) :
            Val(response).content.translations[k].translated_text
                = v1_translate_text(args.texts[k], args.source_lang,
                                    args.target_lang).content.translated_text

\* C20: for every image with width >= 1 and height >= 1 and every confidence
\* threshold, _mock_object_detection completes without an arithmetic error
\* and every bounding box it produces has x >= 0 and y >= 0.
C20_MockDetectionTotal ==
    (AtDone("detect_objects") /\ ~svc.object_detection_model
     /\ args.width >= 1 /\ args.height >= 1) =>
        /\ outcome = "returned"
        /\ \A k \in 1..Len(Val(result).objects) :
              /\ Val(result).objects[k].boundingBox.x >= 0
              /\ Val(result).objects[k].boundingBox.y >= 0

====
